---- MODULE Spec2Model ----
(***************************************************************************)
(* Model of spacex-dash-app.py: the module-level start-up (CSV load,       *)
(* payload bounds, launch sites, layout, app.run), the two Dash callbacks  *)
(* update_pie_chart and update_scatter, and the callback wiring declared   *)
(* by the two @app.callback registrations.                                 *)
(*                                                                         *)
(* Numbers of the payload column and of the slider are held in fixed       *)
(* point: the integer p stands for p / Scale kilograms, so that int()      *)
(* (truncation toward zero) is a real conversion.                          *)
(***************************************************************************)
EXTENDS Integers, Sequences, FiniteSets, TLC

VARIABLES csv_file, pc, spacex_df, min_payload, max_payload, launch_sites,
          site_value, payload_value, pie_chart, scatter_chart,
          requests, failed

vars == <<csv_file, pc, spacex_df, min_payload, max_payload, launch_sites,
          site_value, payload_value, pie_chart, scatter_chart,
          requests, failed>>

------------------------------------------------------------------------------
(* Bounds of the model *)

MaxRows == 2

MaxPayload == 1

MaxTraceRows == 3

Scale == 2

------------------------------------------------------------------------------
(* Column names and input domains *)

payload_col == "Payload Mass (kg)"

SiteCol == "Launch Site"

ClassCol == "class"

BoosterCol == "Booster Version"

RequiredColumns == {SiteCol, payload_col, ClassCol, BoosterCol}

RowSites == {"A", "B"}

AbsentSite == "C"

\* dropdown values offered to the callbacks: all sites, one site of the
\* rows, one site no row has
SiteValues == {"ALL", "A", AbsentSite}

Payloads == 0..MaxPayload

\* slider ends offered to the callbacks: the two ends of the payload scale
RangeVals == {0, MaxPayload}

Boosters == {"F9 v1.0", "F9 FT"}

CsvRow == [site : RowSites, payload : Payloads, class : {0, 1}, booster : Boosters]

CsvRowSeqs == UNION {[1..n -> CsvRow] : n \in 0..MaxRows}

\* files whose rows all carry the same booster version
OneBoosterRowSeqs ==
    {rows \in CsvRowSeqs : \A i \in 1..Len(rows) : rows[i].booster = "F9 v1.0"}

\* rows of the longer files: either booster; a light payload that landed,
\* at either site, or a heavy payload that was lost, at the selectable site
TraceRow ==
    {r \in CsvRow : \/ r.payload = 0 /\ r.class = 1
                    \/ r.payload = MaxPayload /\ r.class = 0 /\ r.site = "A"}

TraceRowSeqs == UNION {[1..n -> TraceRow] : n \in 0..MaxTraceRows}

ColumnChoices == {RequiredColumns} \cup {RequiredColumns \ {c} : c \in RequiredColumns}

------------------------------------------------------------------------------
(* Data-frame helpers *)

\* pd.read_csv: the rows of the file under a RangeIndex 0..n-1
read_csv(file) ==
    [columns |-> file.columns,
     rows |-> [i \in 1..Len(file.rows) |->
                 [idx |-> i - 1,
                  site |-> file.rows[i].site,
                  payload |-> file.rows[i].payload,
                  class |-> file.rows[i].class,
                  booster |-> file.rows[i].booster]]]

NoFrame == [columns |-> {}, rows |-> <<>>]

NaN == <<>>

RECURSIVE SeqMin(_)
SeqMin(s) ==
    IF Len(s) = 1 THEN s[1]
    ELSE LET m == SeqMin(Tail(s)) IN IF s[1] <= m THEN s[1] ELSE m

RECURSIVE SeqMax(_)
SeqMax(s) ==
    IF Len(s) = 1 THEN s[1]
    ELSE LET m == SeqMax(Tail(s)) IN IF s[1] >= m THEN s[1] ELSE m

PayloadColumn(rows) == [i \in 1..Len(rows) |-> rows[i].payload]

\* Series.min(): NaN on an empty column
ColumnMin(rows) == IF Len(rows) = 0 THEN NaN ELSE <<SeqMin(PayloadColumn(rows))>>

\* Series.max(): NaN on an empty column
ColumnMax(rows) == IF Len(rows) = 0 THEN NaN ELSE <<SeqMax(PayloadColumn(rows))>>

\* int(x): truncation toward zero, in fixed point
IntTrunc(p) ==
    IF p >= 0 THEN (p \div Scale) * Scale
    ELSE 0 - (((0 - p) \div Scale) * Scale)

RECURSIVE Unique(_)
\* Series.unique().tolist(): distinct values in order of first appearance
Unique(s) ==
    IF Len(s) = 0 THEN <<>>
    ELSE LET front == Unique(SubSeq(s, 1, Len(s) - 1))
             last == s[Len(s)]
         IN IF \E i \in 1..Len(front) : front[i] = last
            THEN front ELSE Append(front, last)

SiteColumn(rows) == [i \in 1..Len(rows) |-> rows[i].site]

dropdown_options == <<"ALL">> \o launch_sites

\* RangeSlider value=[int(min_payload), int(max_payload)]
SliderDefault == <<IntTrunc(min_payload[1]), IntTrunc(max_payload[1])>>

------------------------------------------------------------------------------
(* Figures handed to the two dcc.Graph components *)

NoFigure == [kind |-> "none", data |-> <<>>, title |-> ""]

\* a callback that raises: Dash answers the request with an error and
\* leaves the output as it was
Raised == [kind |-> "error", data |-> <<>>, title |-> ""]

\* px.pie(frame, values=..., names=..., title=...)
PxPie(agg, title) == [kind |-> "pie", data |-> agg, title |-> title]

\* the traces of px.scatter(..., color='Booster Version'): one trace per
\* booster version, in order of first appearance in the frame, each holding
\* its rows in frame order
ColorTraces(rows) ==
    LET firsts == {i \in 1..Len(rows) :
                      \A j \in 1..(i - 1) : rows[j].booster # rows[i].booster}
    IN [k \in 1..Cardinality(firsts) |->
          LET f == CHOOSE i \in firsts : Cardinality({j \in firsts : j <= i}) = k
          IN [name |-> rows[f].booster,
              rows |-> SelectSeq(rows, LAMBDA r : r.booster = rows[f].booster)]]

\* px.scatter(frame, x=payload_col, y='class', color='Booster Version',
\*            hover_data=['Launch Site', 'Payload Mass (kg)'], ...):
\* every named column must exist, also for an empty frame
PxScatter(rows, title) ==
    IF {payload_col, ClassCol, BoosterCol, SiteCol} \subseteq spacex_df.columns
    THEN [kind |-> "scatter", data |-> ColorTraces(rows), title |-> title]
    ELSE Raised

------------------------------------------------------------------------------
(* update_pie_chart *)

CountWhere(rows, site, class) ==
    Cardinality({i \in 1..Len(rows) : rows[i].site = site /\ rows[i].class = class})

\* faulty variant: the class filter is dropped
AllCountsBySite(rows) ==
    [s \in {rows[i].site : i \in 1..Len(rows)} |->
        CountWhere(rows, s, 0) + CountWhere(rows, s, 1)]

\* spacex_df[spacex_df['class'] == 1].groupby('Launch Site').size()
SuccessCountsBySite(rows) ==
    [s \in {rows[i].site : i \in {j \in 1..Len(rows) : rows[j].class = 1}} |->
        CountWhere(rows, s, 1)]

\* spacex_df[spacex_df['Launch Site'] == selected_site]
SiteRows(rows, selected_site) ==
    SelectSeq(rows, LAMBDA r : r.site = selected_site)

\* filtered_df['class'].value_counts(): one entry per class value present
ValueCounts(rows) ==
    [c \in {rows[i].class : i \in 1..Len(rows)} |->
        Cardinality({i \in 1..Len(rows) : rows[i].class = c})]

\* faulty variant: the two labels are exchanged
SwappedLabel(c) == IF c = 1 THEN "Failure" ELSE "Success"

\* .replace({1: 'Success', 0: 'Failure'})
ReplaceLabel(c) == IF c = 1 THEN "Success" ELSE "Failure"

Relabel(counts) ==
    [l \in {ReplaceLabel(c) : c \in DOMAIN counts} |->
        counts[CHOOSE c \in DOMAIN counts : ReplaceLabel(c) = l]]

\* faulty variant: a site without rows is rejected
update_pie_chart_strict(selected_site) ==
    IF ~({ClassCol, SiteCol} \subseteq spacex_df.columns) THEN Raised
    ELSE IF selected_site = "ALL"
    THEN PxPie(SuccessCountsBySite(spacex_df.rows),
               "Total Successful Launches by Site")
    ELSE IF Len(SiteRows(spacex_df.rows, selected_site)) = 0 THEN Raised
    ELSE PxPie(Relabel(ValueCounts(SiteRows(spacex_df.rows, selected_site))),
               "Success vs Failure for " \o selected_site)

update_pie_chart(selected_site) ==
    IF selected_site = "ALL"
    THEN IF {ClassCol, SiteCol} \subseteq spacex_df.columns
         THEN PxPie(SuccessCountsBySite(spacex_df.rows),
                    "Total Successful Launches by Site")
         ELSE Raised
    ELSE IF {SiteCol, ClassCol} \subseteq spacex_df.columns
         THEN PxPie(Relabel(ValueCounts(SiteRows(spacex_df.rows, selected_site))),
                    "Success vs Failure for " \o selected_site)
         ELSE Raised

------------------------------------------------------------------------------
(* update_scatter *)

\* faulty variant: the upper end of the range is exclusive
PayloadMaskExclusive(row, low, high) == row.payload >= low /\ row.payload < high

\* (spacex_df[payload_col] >= low) & (spacex_df[payload_col] <= high)
PayloadMask(row, low, high) == row.payload >= low /\ row.payload <= high

RECURSIVE Reverse(_)
Reverse(s) == IF Len(s) = 0 THEN <<>> ELSE Append(Reverse(Tail(s)), s[1])

\* faulty variant: the selected rows come out in reverse index order
MaskRowsReversed(rows, low, high) ==
    Reverse(SelectSeq(rows, LAMBDA r : PayloadMask(r, low, high)))

\* spacex_df[mask]: boolean indexing keeps the rows in index order
MaskRows(rows, low, high) ==
    SelectSeq(rows, LAMBDA r : PayloadMask(r, low, high))

update_scatter(selected_site, payload_range) ==
    LET low == payload_range[1]
        high == payload_range[2]
    IN IF payload_col \notin spacex_df.columns THEN Raised
       ELSE LET filtered_df == MaskRows(spacex_df.rows, low, high)
            IN IF selected_site = "ALL"
               THEN PxScatter(filtered_df,
                      "Correlation between Payload and Success for All Launch Sites")
               ELSE IF SiteCol \notin spacex_df.columns THEN Raised
               ELSE PxScatter(SiteRows(filtered_df, selected_site),
                      "Correlation between Payload and Success for site "
                         \o selected_site)

------------------------------------------------------------------------------
(* Callback wiring: the two @app.callback registrations *)

CallbackNames == {"update_pie_chart", "update_scatter"}

\* faulty variant: the scatter callback is registered on the slider alone
CallbackInputsSliderOnly(cb) ==
    IF cb = "update_pie_chart" THEN {"site-dropdown"} ELSE {"payload-slider"}

\* faulty variant: the pie callback is registered on the slider instead of the dropdown
CallbackInputsPieOnSlider(cb) ==
    IF cb = "update_pie_chart"
    THEN {"payload-slider"}
    ELSE {"site-dropdown", "payload-slider"}

CallbackInputs(cb) ==
    IF cb = "update_pie_chart"
    THEN {"site-dropdown"}
    ELSE {"site-dropdown", "payload-slider"}

CallbackOutput(cb) ==
    IF cb = "update_pie_chart"
    THEN "success-pie-chart"
    ELSE "success-payload-scatter-chart"

\* the callbacks Dash fires when the property of one input changes
Triggered(input) == {cb \in CallbackNames : input \in CallbackInputs(cb)}

\* a callback request: the values of the callback's arguments as the page
\* holds them when the request is sent
Request(cb, site, range) ==
    IF cb = "update_pie_chart"
    THEN [cb |-> cb, args |-> <<site>>]
    ELSE [cb |-> cb, args |-> <<site, range>>]

\* the callbacks with a request in flight
pending == {r.cb : r \in requests}

\* an input changed: every callback registered on it is requested with the
\* page's values; a request of the same callback still in flight is
\* superseded, its response is discarded by the page
Send(input, site, range) ==
    {r \in requests : r.cb \notin Triggered(input)}
       \cup {Request(cb, site, range) : cb \in Triggered(input)}

------------------------------------------------------------------------------
(* Start-up: the module-level statements, in order *)

globals == <<csv_file, spacex_df, min_payload, max_payload, launch_sites>>

widgets == <<site_value, payload_value>>

dispatch == <<pie_chart, scatter_chart, requests, failed>>

Start(files) ==
    /\ csv_file \in files
    /\ pc = "read_csv"
    /\ spacex_df = NoFrame
    /\ min_payload = NaN
    /\ max_payload = NaN
    /\ launch_sites = <<>>
    /\ site_value = ""
    /\ payload_value = <<0, 0>>
    /\ pie_chart = NoFigure
    /\ scatter_chart = NoFigure
    /\ requests = {}
    /\ failed = {}

\* any file header
InitAny == Start([columns : ColumnChoices, rows : CsvRowSeqs])

\* a file with every column, one booster version
Init == Start([columns : {RequiredColumns}, rows : OneBoosterRowSeqs])

\* a longer file with every column and several booster versions
InitTraces == Start([columns : {RequiredColumns}, rows : TraceRowSeqs])

Crash == pc' = "crashed"

Load ==
    /\ pc = "read_csv"
    /\ spacex_df' = read_csv(csv_file)
    /\ pc' = "payload_bounds"
    /\ UNCHANGED <<csv_file, min_payload, max_payload, launch_sites, widgets, dispatch>>

PayloadBounds ==
    /\ pc = "payload_bounds"
    /\ IF payload_col \in spacex_df.columns
       THEN /\ min_payload' = ColumnMin(spacex_df.rows)
            /\ max_payload' = ColumnMax(spacex_df.rows)
            /\ pc' = "launch_sites"
       ELSE Crash /\ UNCHANGED <<min_payload, max_payload>>
    /\ UNCHANGED <<csv_file, spacex_df, launch_sites, widgets, dispatch>>

LaunchSites ==
    /\ pc = "launch_sites"
    /\ IF SiteCol \in spacex_df.columns
       THEN /\ launch_sites' = Unique(SiteColumn(spacex_df.rows))
            /\ pc' = "layout"
       ELSE Crash /\ UNCHANGED launch_sites
    /\ UNCHANGED <<csv_file, spacex_df, min_payload, max_payload, widgets, dispatch>>

\* int(min_payload) raises on NaN (empty frame); otherwise the dropdown starts
\* at 'ALL' and the slider at [int(min_payload), int(max_payload)].  The step
\* of the marks is ((max - min) // 5 or 1), never 0, so the marks cannot raise.
Layout ==
    /\ pc = "layout"
    /\ IF min_payload = NaN \/ max_payload = NaN
       THEN Crash /\ UNCHANGED widgets
       ELSE /\ site_value' = "ALL"
            /\ payload_value' = SliderDefault
            /\ pc' = "app_run"
    /\ UNCHANGED <<globals, dispatch>>

\* app.run: the page is served and Dash requests every callback once with
\* the layout's values
AppRun ==
    /\ pc = "app_run"
    /\ pc' = "serving"
    /\ requests' = {Request(cb, site_value, payload_value) : cb \in CallbackNames}
    /\ UNCHANGED <<globals, widgets, pie_chart, scatter_chart, failed>>

------------------------------------------------------------------------------
(* Events and callback invocations while serving.  The page stays          *)
(* interactive and the server is threaded: an event may arrive while       *)
(* requests are in flight.                                                 *)

SiteChange(s) ==
    /\ pc = "serving"
    /\ s # site_value
    /\ site_value' = s
    /\ requests' = Send("site-dropdown", s, payload_value)
    /\ UNCHANGED <<pc, globals, payload_value, pie_chart, scatter_chart, failed>>

SliderChange(low, high) ==
    /\ pc = "serving"
    /\ <<low, high>> # payload_value
    /\ payload_value' = <<low, high>>
    /\ requests' = Send("payload-slider", site_value, <<low, high>>)
    /\ UNCHANGED <<pc, globals, site_value, pie_chart, scatter_chart, failed>>

\* the response of one request: the result goes to the callback's
\* registered output; a callback that raised leaves the output as it was
Invoke(r, result) ==
    /\ pc = "serving"
    /\ r \in requests
    /\ requests' = requests \ {r}
    /\ IF result = Raised
       THEN /\ failed' = failed \cup {r.cb}
            /\ UNCHANGED <<pie_chart, scatter_chart>>
       ELSE /\ failed' = failed \ {r.cb}
            /\ IF CallbackOutput(r.cb) = "success-pie-chart"
               THEN pie_chart' = result /\ UNCHANGED scatter_chart
               ELSE scatter_chart' = result /\ UNCHANGED pie_chart
    /\ UNCHANGED <<pc, widgets, csv_file, min_payload, max_payload, launch_sites>>

RunPie ==
    \E r \in requests :
        /\ r.cb = "update_pie_chart"
        /\ Invoke(r, update_pie_chart(r.args[1]))
        /\ UNCHANGED spacex_df

\* faulty variant: the payload filter is stored back into the module-level frame
RunScatterInPlace ==
    \E r \in requests :
        /\ r.cb = "update_scatter"
        /\ Invoke(r, update_scatter(r.args[1], r.args[2]))
        /\ spacex_df' = [spacex_df EXCEPT
                            !.rows = MaskRows(@, r.args[2][1], r.args[2][2])]

RunScatter ==
    \E r \in requests :
        /\ r.cb = "update_scatter"
        /\ Invoke(r, update_scatter(r.args[1], r.args[2]))
        /\ UNCHANGED spacex_df

Next ==
    \/ Load
    \/ PayloadBounds
    \/ LaunchSites
    \/ Layout
    \/ AppRun
    \/ \E s \in SiteValues : SiteChange(s)
    \/ \E low \in RangeVals, high \in RangeVals : SliderChange(low, high)
    \/ RunPie
    \/ RunScatter

\* the environment C9 supposes: an event arrives only when no request is
\* in flight
NextSerial ==
    \/ Load
    \/ PayloadBounds
    \/ LaunchSites
    \/ Layout
    \/ AppRun
    \/ requests = {} /\ \E s \in SiteValues : SiteChange(s)
    \/ requests = {} /\ \E low \in RangeVals, high \in RangeVals : SliderChange(low, high)
    \/ RunPie
    \/ RunScatter

SpecSerial == Init /\ [][NextSerial]_vars

Spec == Init /\ [][Next]_vars

SpecLoad == InitAny /\ [][Next]_vars

SpecTraces == InitTraces /\ [][Next]_vars

------------------------------------------------------------------------------
(* Properties *)

Serving == pc = "serving"

Idle == Serving /\ pending = {}

PieFresh == Serving /\ "update_pie_chart" \notin pending

ScatterFresh == Serving /\ "update_scatter" \notin pending

\* the rows of the loaded dataset
D == spacex_df.rows

RECURSIVE Flatten(_)
Flatten(traces) ==
    IF Len(traces) = 0 THEN <<>> ELSE traces[1].rows \o Flatten(Tail(traces))

\* the rows the scatter chart plots, trace after trace
Plotted == Flatten(scatter_chart.data)

InRange(r) == payload_value[1] <= r.payload /\ r.payload <= payload_value[2]

SiteMatches(r) == site_value = "ALL" \/ r.site = site_value

RowsOfSite(site) == {i \in 1..Len(D) : D[i].site = site}

RowsOfClass(class) == {i \in 1..Len(D) : D[i].class = class}

RECURSIVE AggSum(_)
AggSum(agg) ==
    IF DOMAIN agg = {} THEN 0
    ELSE LET l == CHOOSE x \in DOMAIN agg : TRUE
         IN agg[l] + AggSum([x \in DOMAIN agg \ {l} |-> agg[x]])

\* C1: the rows update_scatter plots are exactly the rows of the dataset with
\* low <= payload <= high (both ends inclusive) and, unless the site filter is
\* "ALL", site = site filter: every plotted row satisfies both predicates and
\* every such row of the dataset is plotted exactly once.
ScatterRowsExact ==
    ScatterFresh =>
        /\ scatter_chart.kind = "scatter"
        /\ \A j \in 1..Len(Plotted) :
              /\ \E i \in 1..Len(D) : D[i] = Plotted[j]
              /\ InRange(Plotted[j])
              /\ SiteMatches(Plotted[j])
        /\ \A i \in 1..Len(D) :
              (InRange(D[i]) /\ SiteMatches(D[i])) =>
                 Cardinality({j \in 1..Len(Plotted) :
                                 Plotted[j] = D[i]}) = 1

\* a site is selected, one row sits on the upper end of the range and is
\* plotted, another row of the dataset is filtered out
ScatterRowsExactWitness ==
    /\ Idle
    /\ site_value \in RowSites
    /\ Len(D) = 2
    /\ Len(Plotted) = 1
    /\ Plotted[1].payload = payload_value[2]
    /\ payload_value[1] < payload_value[2]

\* C2: for a site filter S other than "ALL" the pie aggregate has exactly the
\* labels among Success / Failure for which a row of site S exists, Success
\* counts the class-1 rows and Failure the class-0 rows of S, and the counts
\* sum to the number of rows of S.
PieSiteCounts ==
    (PieFresh /\ site_value # "ALL") =>
        /\ pie_chart.kind = "pie"
        /\ DOMAIN pie_chart.data =
              {l \in {"Success", "Failure"} :
                  \E i \in RowsOfSite(site_value) :
                      D[i].class = (IF l = "Success" THEN 1 ELSE 0)}
        /\ "Success" \in DOMAIN pie_chart.data =>
              pie_chart.data["Success"] =
                 Cardinality(RowsOfSite(site_value) \cap RowsOfClass(1))
        /\ "Failure" \in DOMAIN pie_chart.data =>
              pie_chart.data["Failure"] =
                 Cardinality(RowsOfSite(site_value) \cap RowsOfClass(0))
        /\ AggSum(pie_chart.data) = Cardinality(RowsOfSite(site_value))

\* the selected site has a success and a failure, so both labels are present
PieSiteCountsWitness ==
    /\ Idle
    /\ site_value \in RowSites
    /\ DOMAIN pie_chart.data = {"Success", "Failure"}

\* C3: with the site filter "ALL" the pie aggregate is keyed by site, each
\* site's count is its number of class-1 rows, a site without a success has
\* no entry, and the counts sum to the number of class-1 rows of the dataset.
PieAllCounts ==
    (PieFresh /\ site_value = "ALL") =>
        /\ pie_chart.kind = "pie"
        /\ DOMAIN pie_chart.data = {D[i].site : i \in RowsOfClass(1)}
        /\ \A s \in DOMAIN pie_chart.data :
              pie_chart.data[s] = Cardinality(RowsOfSite(s) \cap RowsOfClass(1))
        /\ AggSum(pie_chart.data) = Cardinality(RowsOfClass(1))

\* "ALL" is selected; one site has only a failure and gets no entry, the
\* other has a success
PieAllCountsWitness ==
    /\ Idle
    /\ site_value = "ALL"
    /\ RowsOfClass(0) # {}
    /\ Cardinality(DOMAIN pie_chart.data) = 1
    /\ \E i \in RowsOfClass(0) : D[i].site \notin DOMAIN pie_chart.data

\* C4: if the input file lacks one of the required columns the process never
\* reaches the state in which the page is served.
LoadFailureFatal ==
    (RequiredColumns \ csv_file.columns # {}) => ~Serving

\* C5: with the payload slider at its default value update_scatter plots
\* every row of the dataset (every row of the selected site).
DefaultRangeIncludesAll ==
    (ScatterFresh /\ payload_value = SliderDefault) =>
        \A i \in 1..Len(D) :
            SiteMatches(D[i]) =>
               \E j \in 1..Len(Plotted) : Plotted[j] = D[i]

\* C6: no callback raises, whatever the site value and the pair of numbers;
\* a site that no row has gives an empty aggregate and an empty row sequence;
\* a range with low > high or entirely outside the payload bounds of the
\* dataset gives an empty row sequence.
FiltersNeverFail ==
    Serving =>
        /\ failed = {}
        /\ (PieFresh /\ site_value # "ALL" /\ RowsOfSite(site_value) = {}) =>
              (pie_chart.kind = "pie" /\ DOMAIN pie_chart.data = {})
        /\ (ScatterFresh /\ site_value # "ALL" /\ RowsOfSite(site_value) = {}) =>
              (scatter_chart.kind = "scatter" /\ Len(Plotted) = 0)
        /\ (ScatterFresh /\
              (\/ payload_value[1] > payload_value[2]
               \/ \A i \in 1..Len(D) : payload_value[2] < D[i].payload
               \/ \A i \in 1..Len(D) : payload_value[1] > D[i].payload)) =>
              (scatter_chart.kind = "scatter" /\ Len(Plotted) = 0)

\* a site no row has and a range with low > high, both callbacks returned
FiltersNeverFailWitness ==
    /\ Idle
    /\ site_value = AbsentSite
    /\ payload_value[1] > payload_value[2]
    /\ pie_chart.kind = "pie"
    /\ pie_chart.title = "Success vs Failure for " \o AbsentSite
    /\ scatter_chart.kind = "scatter"
    /\ scatter_chart.title =
          "Correlation between Payload and Success for site " \o AbsentSite

NewlyRequested == {r.cb : r \in requests' \ requests}

\* C8 as stated: a change of the site selector, and likewise a change of the
\* payload slider, requests exactly one callback and so feeds exactly one
\* chart.
OneHandlerPerInput ==
    [][(Serving /\ widgets' # widgets) =>
          /\ Cardinality(NewlyRequested) = 1
          /\ Cardinality({CallbackOutput(cb) : cb \in NewlyRequested}) = 1
      ]_vars

\* C8 as amended: a change of the payload slider requests update_scatter and
\* nothing else; a change of the site selector requests each of the two
\* callbacks once, for the two charts; the response of a request changes the
\* chart registered as the callback's output and no other.
WiringPerInput ==
    [][Serving =>
          /\ payload_value' # payload_value =>
                NewlyRequested = {"update_scatter"}
          /\ site_value' # site_value =>
                /\ NewlyRequested = {"update_pie_chart", "update_scatter"}
                /\ Cardinality(requests' \ requests) = 2
                /\ {CallbackOutput(cb) : cb \in NewlyRequested} =
                      {"success-pie-chart", "success-payload-scatter-chart"}
          /\ \A r \in requests \ requests' :
                /\ r.cb = "update_pie_chart" => scatter_chart' = scatter_chart
                /\ r.cb = "update_scatter" => pie_chart' = pie_chart
      ]_vars

\* a site change on a page that already shows a pie chart: both callbacks
\* are in flight with the new site
WiringPerInputWitness ==
    /\ Serving
    /\ site_value \in RowSites
    /\ Cardinality(requests) = 2
    /\ \A r \in requests : r.args[1] = site_value
    /\ pie_chart.kind = "pie"
    /\ scatter_chart.kind = "scatter"

\* C9: with events taken one at a time, when every callback requested by the
\* last event has returned, the pie
\* chart is update_pie_chart of the current site value and the scatter chart
\* is update_scatter of the current site value and payload range.
ChartsFreshWhenIdle ==
    Idle =>
        /\ pie_chart = update_pie_chart(site_value)
        /\ scatter_chart = update_scatter(site_value, payload_value)

\* after a site change and a slider change: a site is selected, the range is
\* not the default one, and the charts show rows of that site
ChartsFreshWhenIdleWitness ==
    /\ Idle
    /\ site_value \in RowSites
    /\ payload_value # SliderDefault
    /\ DOMAIN pie_chart.data # {}
    /\ Len(Plotted) > 0

\* C10: no step taken while serving changes the dataset or any other
\* module-level value, and across every callback invocation the result of
\* either callback on the site value and payload range in force is the same
\* after the call as before.
CallbacksArePure ==
    [][Serving =>
         /\ spacex_df' = spacex_df
         /\ csv_file' = csv_file
         /\ min_payload' = min_payload
         /\ max_payload' = max_payload
         /\ launch_sites' = launch_sites
         /\ requests' # requests /\ requests' \subseteq requests =>
               \A s \in {site_value}, r \in {payload_value} :
                  /\ update_pie_chart(s)' = update_pie_chart(s)
                  /\ update_scatter(s, r)' = update_scatter(s, r)
      ]_vars

\* both callbacks have run on a range that filters a row out, and the
\* module-level frame still holds every row of the file
CallbacksArePureWitness ==
    /\ Idle
    /\ Len(csv_file.rows) = 2
    /\ Len(Plotted) = 1
    /\ spacex_df = read_csv(csv_file)

====
